---- MODULE Spec2Model ----
(***************************************************************************)
(* A model of the led_spot animation core: the Spotlight engine            *)
(* (Spotlight.cpp, stored as src/include/config.h), the colour space       *)
(* conversions (ColorSpace.cpp, src/unnamed/part_005) and the easing       *)
(* curves (Easing.cpp, src/unnamed/part_004).                              *)
(*                                                                         *)
(* Numbers.  The code computes in float.  The model computes in exact      *)
(* rationals <<n, d>> (d > 0, lowest terms) extended with the three        *)
(* non-finite values an IEEE division can produce: <<0,0>> is NaN,         *)
(* <<1,0>> is +infinity and <<-1,0>> is -infinity.  Rounding error of      *)
(* float is not modelled; NaN, infinity, truncation to uint8_t and the     *)
(* sign rules of fmod are.                                                 *)
(* TLC's integers are 32 bits wide: the bounds below keep every numerator  *)
(* and denominator within that range, and longer chains of sampled blends  *)
(* leave it.                                                               *)
(*                                                                         *)
(* Time.  The variable now is the time in milliseconds, counted from the   *)
(* instant at which the 32-bit counter behind millis() is 0: negative      *)
(* before the counter wraps, not negative after.  millis() returns now     *)
(* modulo 2^32, and the anchors the engine stores are such readings.       *)
(* Durations and periods are held in milliseconds (the code multiplies the *)
(* float seconds by 1000.0 at every use).                                  *)
(***************************************************************************)
EXTENDS Integers, Sequences, FiniteSets, TLC

(***************************************************************************)
(* Bounds of the model.                                                    *)
(***************************************************************************)
MaxTicks == 3      \* clock advances per behaviour
MaxCalls == 2      \* calls of the public API other than update per behaviour
MaxRedraws == 2    \* values random returns in one run of the redraw loop

(***************************************************************************)
(* Program constants.                                                      *)
(***************************************************************************)
MAX_COLORS == 32
DefaultTransitionDurationMs == 2000
DefaultFixedTransitionDurationMs == 200

(***************************************************************************)
(* Extended rational arithmetic (the model's float).                       *)
(***************************************************************************)
Abs(x) == IF x < 0 THEN -x ELSE x

Sign(x) == IF x < 0 THEN -1 ELSE IF x > 0 THEN 1 ELSE 0

RECURSIVE GCD(_, _)
GCD(a, b) == IF b = 0 THEN a ELSE GCD(b, a % b)

Rat(n, d) ==
  IF d = 0 THEN <<Sign(n), 0>>
  ELSE LET g == GCD(Abs(n), Abs(d))
           s == IF d < 0 THEN -1 ELSE 1
       IN  <<(s * n) \div g, (s * d) \div g>>

R(n) == <<n, 1>>

NaN == <<0, 0>>

PosInf == <<1, 0>>

IsNaN(x) == x[2] = 0 /\ x[1] = 0

IsFinite(x) == x[2] > 0

Neg(x) == <<-x[1], x[2]>>

Add(x, y) ==
  IF x[2] = 0 /\ y[2] = 0
  THEN IF x[1] = y[1] THEN x ELSE NaN
  ELSE Rat(x[1] * y[2] + y[1] * x[2], x[2] * y[2])

Sub(x, y) == Add(x, Neg(y))

Mul(x, y) == Rat(x[1] * y[1], x[2] * y[2])

Div(x, y) ==
  IF y[1] < 0 THEN Rat(-(x[1] * y[2]), x[2] * (-y[1]))
  ELSE Rat(x[1] * y[2], x[2] * y[1])

\* x < y as IEEE compares: false when either side is NaN.
Lt(x, y) ==
  /\ ~IsNaN(x)
  /\ ~IsNaN(y)
  /\ IF IsFinite(x) /\ IsFinite(y) THEN x[1] * y[2] < y[1] * x[2]
     ELSE IF ~IsFinite(x) THEN x[1] < 0 /\ y # x
     ELSE y[1] > 0

Le(x, y) == ~IsNaN(x) /\ ~IsNaN(y) /\ ~Lt(y, x)

Eq(x, y) == ~IsNaN(x) /\ ~IsNaN(y) /\ x = y

\* Truncation toward zero of a finite value (the integer part a cast keeps).
Trunc(x) == IF x[1] >= 0 THEN x[1] \div x[2] ELSE -((-x[1]) \div x[2])

\* C fmod for a finite positive divisor: the result has the sign of x.
Fmod(x, m) ==
  IF ~IsFinite(x) THEN NaN
  ELSE Sub(x, Mul(m, R(Trunc(Div(x, m)))))

\* std::min(1.0f, t) == (t < 1.0f) ? t : 1.0f
MinOne(t) == IF Lt(t, R(1)) THEN t ELSE R(1)

\* std::max({a, b, c}) and std::min({a, b, c}) on channel values.
Max3(a, b, c) == IF a >= b /\ a >= c THEN a ELSE IF b >= c THEN b ELSE c

Min3(a, b, c) == IF a <= b /\ a <= c THEN a ELSE IF b <= c THEN b ELSE c

VARIABLES
  eng,       \* the Spotlight object's members
  now,       \* millis()
  castUB,    \* how this build converts an out-of-range float to uint8_t
  wrote,     \* the colours the last operation passed to writeLeds, in order
  lastOp,    \* the last operation performed
  target,    \* the colour most recently passed to setRGB
  probe,     \* the colour the last getCurrentRGB call returned
  sampled,   \* the colour the last enableColorWheelMode call sampled
  kelvinCall, \* the arguments of the last setColorTemperature call
  easingCall, \* the last direct call of getEasedValue: <<curve, t, result>>
  roundTrip, \* the last direct round trip: <<c, lchToRgb(rgbToLch(c))>>
  redraw,    \* an update inside its redraw loop: the position and newIndex
  reply,     \* the last handleSetCycleMode request: what was sent and parsed
  ticks,     \* clock advances so far
  calls      \* API calls other than update so far

(***************************************************************************)
(* static_cast<uint8_t>(float).  In range the cast truncates toward zero.  *)
(* Out of range (negative, above 255, NaN) the cast is undefined; the two  *)
(* outcomes builds produce are modelled: "saturate" (hardware conversion:  *)
(* clamp, NaN to 0) and "wrap" (libgcc soft float: convert to int32,       *)
(* saturating at INT_MIN/INT_MAX, then keep the low byte).                 *)
(***************************************************************************)
CastU8(x) ==
  IF IsNaN(x) THEN (IF castUB = "saturate" THEN 0 ELSE 255)
  ELSE IF ~IsFinite(x)
       THEN (IF x[1] > 0 THEN 255 ELSE 0)
  ELSE LET t == Trunc(x)
       IN  IF t >= 0 /\ t <= 255 THEN t
           ELSE IF castUB = "saturate" THEN (IF t < 0 THEN 0 ELSE 255)
           ELSE t % 256

(***************************************************************************)
(* ColorSpace.cpp                                                          *)
(***************************************************************************)
RGB(r, g, b) == [r |-> r, g |-> g, b |-> b]

LCH(l, c, h) == [l |-> l, c |-> c, h |-> h]

LchAdd(a, b) == LCH(Add(a.l, b.l), Add(a.c, b.c), Add(a.h, b.h))

LchSub(a, b) == LCH(Sub(a.l, b.l), Sub(a.c, b.c), Sub(a.h, b.h))

LchScale(a, k) == LCH(Mul(a.l, k), Mul(a.c, k), Mul(a.h, k))

\* start + (end - start) * easedT
Interpolate(start, end, easedT) == LchAdd(start, LchScale(LchSub(end, start), easedT))

Hue2Rgb(p, q, t0) ==
  LET t1 == IF Lt(t0, R(0)) THEN Add(t0, R(1)) ELSE t0
      t  == IF Lt(R(1), t1) THEN Sub(t1, R(1)) ELSE t1
  IN  IF Lt(t, Rat(1, 6)) THEN Add(p, Mul(Mul(Sub(q, p), R(6)), t))
      ELSE IF Lt(t, Rat(1, 2)) THEN q
      ELSE IF Lt(t, Rat(2, 3))
           THEN Add(p, Mul(Mul(Sub(q, p), Sub(Rat(2, 3), t)), R(6)))
      ELSE p

HslToRgb(h, s, l) ==
  IF Eq(s, R(0))
  THEN RGB(CastU8(Mul(l, R(255))), CastU8(Mul(l, R(255))), CastU8(Mul(l, R(255))))
  ELSE LET q  == IF Lt(l, Rat(1, 2)) THEN Mul(l, Add(R(1), s))
                 ELSE Sub(Add(l, s), Mul(l, s))
           p  == Sub(Mul(R(2), l), q)
           hh == Div(h, R(360))
       IN  RGB(CastU8(Mul(Hue2Rgb(p, q, Add(hh, Rat(1, 3))), R(255))),
               CastU8(Mul(Hue2Rgb(p, q, hh), R(255))),
               CastU8(Mul(Hue2Rgb(p, q, Sub(hh, Rat(1, 3))), R(255))))

\* Returns [h, s, v]; the hue of a gray that is not black is 0/0.
RgbToHsv(rgb) ==
  LET mx    == Max3(rgb.r, rgb.g, rgb.b)
      mn    == Min3(rgb.r, rgb.g, rgb.b)
      delta == Rat(mx - mn, 255)
      h0    == IF mx = rgb.r
               THEN Fmod(Div(Rat(rgb.g - rgb.b, 255), delta), R(6))
               ELSE IF mx = rgb.g
                    THEN Add(Div(Rat(rgb.b - rgb.r, 255), delta), R(2))
               ELSE Add(Div(Rat(rgb.r - rgb.g, 255), delta), R(4))
      h1    == Mul(h0, R(60))
  IN  IF mx = 0 THEN [h |-> R(0), s |-> R(0), v |-> R(0)]
      ELSE [h |-> IF Lt(h1, R(0)) THEN Add(h1, R(360)) ELSE h1,
            s |-> Div(delta, Rat(mx, 255)),
            v |-> Rat(mx, 255)]

HsvToRgb(h, s, v) ==
  LET c  == Mul(v, s)
      hp == Fmod(Div(h, R(60)), R(6))
      f  == Sub(Fmod(hp, R(2)), R(1))
      af == IF Lt(f, R(0)) THEN Neg(f) ELSE f
      x  == Mul(c, Sub(R(1), af))
      m  == Sub(v, c)
      In(lo) == Le(R(lo), hp) /\ Lt(hp, R(lo + 1))
      z  == R(0)
      t  == IF In(0) THEN <<c, x, z>>
            ELSE IF In(1) THEN <<x, c, z>>
            ELSE IF In(2) THEN <<z, c, x>>
            ELSE IF In(3) THEN <<z, x, c>>
            ELSE IF In(4) THEN <<x, z, c>>
            ELSE IF In(5) THEN <<c, z, x>>
            ELSE <<z, z, z>>
  IN  RGB(CastU8(Mul(Add(t[1], m), R(255))),
          CastU8(Mul(Add(t[2], m), R(255))),
          CastU8(Mul(Add(t[3], m), R(255))))

RgbToLch(rgb) ==
  LET mx    == Max3(rgb.r, rgb.g, rgb.b)
      mn    == Min3(rgb.r, rgb.g, rgb.b)
      l     == Rat(mx + mn, 510)
      delta == Rat(mx - mn, 255)
      c     == IF Lt(Rat(1, 2), l) THEN Div(delta, Rat(510 - mx - mn, 255))
               ELSE Div(delta, Rat(mx + mn, 255))
      h0    == IF mx = rgb.r
               THEN Fmod(Add(Div(Rat(rgb.g - rgb.b, 255), delta),
                             IF rgb.g < rgb.b THEN R(6) ELSE R(0)), R(6))
               ELSE IF mx = rgb.g
                    THEN Add(Div(Rat(rgb.b - rgb.r, 255), delta), R(2))
               ELSE Add(Div(Rat(rgb.r - rgb.g, 255), delta), R(4))
      h1    == Mul(h0, R(60))
  IN  IF mx = mn THEN LCH(l, R(0), R(0))
      ELSE LCH(l, c, IF Lt(h1, R(0)) THEN Add(h1, R(360)) ELSE h1)

LchToRgb(lch) ==
  LET s == IF Lt(lch.l, Rat(1, 2))
           THEN (IF Eq(lch.c, R(0)) THEN R(0)
                 ELSE Div(lch.c, Mul(R(2), lch.l)))
           ELSE (IF Eq(lch.c, R(0)) THEN R(0)
                 ELSE Div(lch.c, Sub(R(2), Mul(R(2), lch.l))))
  IN  HslToRgb(lch.h, s, lch.l)

\* kelvinToRgb, tabulated for the temperatures the model calls it with
\* (the fits need log and pow): 1500 K, 6500 K and 6600 K.
KelvinToRgb(kelvin) ==
  IF kelvin = 1500 THEN RGB(255, 108, 0)
  ELSE IF kelvin = 6500 THEN RGB(255, 254, 250)
  ELSE RGB(255, 255, 255)

(***************************************************************************)
(* Easing.cpp                                                              *)
(***************************************************************************)
EaseLinear(t) == t

EaseQuadInOut(t) ==
  IF Lt(t, Rat(1, 2)) THEN Mul(R(2), Mul(t, t))
  ELSE Add(R(-1), Mul(Sub(R(4), Mul(R(2), t)), t))

EaseCubicInOut(t) ==
  IF Lt(t, Rat(1, 2)) THEN Mul(R(4), Mul(t, Mul(t, t)))
  ELSE LET a == Sub(Mul(R(2), t), R(2))
       IN  Add(Mul(Sub(t, R(1)), Mul(a, a)), R(1))

\* cos(PI * x), for the x at which it is rational: the multiples of 1/2.
CosPi(x) ==
  CASE IsFinite(x) /\ x[2] \in {1, 2} ->
         LET k == ((2 * x[1]) \div x[2]) % 4
         IN  IF k = 0 THEN R(1) ELSE IF k = 2 THEN R(-1) ELSE R(0)

\* -(cos(PI * t) - 1.0) / 2.0
EaseSineInOut(t) == Div(Neg(Sub(CosPi(t), R(1))), R(2))

EaseQuartInOut(t) ==
  LET f  == Mul(t, R(2))
      f2 == Sub(f, R(2))
  IN  IF Lt(f, R(1)) THEN Mul(Rat(1, 2), Mul(Mul(f, f), Mul(f, f)))
      ELSE Mul(Rat(-1, 2), Sub(Mul(Mul(f2, f2), Mul(f2, f2)), R(2)))

EaseQuintInOut(t) ==
  LET f  == Mul(t, R(2))
      f2 == Sub(f, R(2))
  IN  IF Lt(f, R(1)) THEN Mul(Rat(1, 2), Mul(Mul(Mul(f, f), Mul(f, f)), f))
      ELSE Mul(Rat(1, 2), Add(Mul(Mul(Mul(f2, f2), Mul(f2, f2)), f2), R(2)))

\* sqrt, for a negative or NaN argument (NaN) and for the arguments whose
\* root is rational.
Sqrt(x) ==
  CASE IsNaN(x) \/ (IsFinite(x) /\ x[1] < 0) -> NaN
    [] IsFinite(x) /\ x[1] >= 0 ->
         <<CHOOSE r \in 0..x[1] : r * r = x[1], CHOOSE r \in 1..x[2] : r * r = x[2]>>

EaseCircInOut(t) ==
  LET f  == Mul(t, R(2))
      f2 == Sub(f, R(2))
  IN  IF Lt(f, R(1)) THEN Mul(Rat(-1, 2), Sub(Sqrt(Sub(R(1), Mul(f, f))), R(1)))
      ELSE Mul(Rat(1, 2), Add(Sqrt(Sub(R(1), Mul(f2, f2))), R(1)))

\* The curve returns t itself at t == 0.0 and t == 1.0.  Between them it is
\* a product of pow and sin, whose values are not rational: the model
\* evaluates the curve at the two ends only.
EaseElasticInOut(t) ==
  CASE Eq(t, R(0)) \/ Eq(t, R(1)) -> t

\* s = 1.70158 * 1.525
EaseBackInOut(t) ==
  LET s  == Rat(25949095, 10000000)
      f  == Mul(t, R(2))
      f2 == Sub(f, R(2))
  IN  IF Lt(f, R(1))
      THEN Mul(Rat(1, 2), Mul(Mul(f, f), Sub(Mul(Add(s, R(1)), f), s)))
      ELSE Mul(Rat(1, 2), Add(Mul(Mul(f2, f2), Add(Mul(Add(s, R(1)), f2), s)), R(2)))

\* easeBounceOut whose last offset is 0.984 instead of 0.984375.
EaseBounceOutRoundedOffset(t) ==
  LET sq(u) == Mul(Rat(121, 16), Mul(u, u))
  IN  IF Lt(t, Rat(4, 11)) THEN sq(t)
      ELSE IF Lt(t, Rat(8, 11)) THEN Add(sq(Sub(t, Rat(6, 11))), Rat(3, 4))
      ELSE IF Lt(t, Rat(10, 11)) THEN Add(sq(Sub(t, Rat(9, 11))), Rat(15, 16))
      ELSE Add(sq(Sub(t, Rat(21, 22))), Rat(123, 125))

\* 7.5625 = 121/16 and 2.75 = 11/4.
EaseBounceOut(t) ==
  LET sq(u) == Mul(Rat(121, 16), Mul(u, u))
  IN  IF Lt(t, Rat(4, 11)) THEN sq(t)
      ELSE IF Lt(t, Rat(8, 11)) THEN Add(sq(Sub(t, Rat(6, 11))), Rat(3, 4))
      ELSE IF Lt(t, Rat(10, 11)) THEN Add(sq(Sub(t, Rat(9, 11))), Rat(15, 16))
      ELSE Add(sq(Sub(t, Rat(21, 22))), Rat(63, 64))

EaseBounceIn(t) == Sub(R(1), EaseBounceOut(Sub(R(1), t)))

EaseBounceInOut(t) ==
  IF Lt(t, Rat(1, 2)) THEN Mul(EaseBounceIn(Mul(t, R(2))), Rat(1, 2))
  ELSE Add(Mul(EaseBounceOut(Sub(Mul(t, R(2)), R(1))), Rat(1, 2)), Rat(1, 2))

\* getEasedValue whose default case is the quadratic curve.
GetEasedValueDefaultQuad(func, t) ==
  CASE func = "Linear" -> EaseLinear(t)
    [] func = "SineInOut" -> EaseSineInOut(t)
    [] func = "CubicInOut" -> EaseCubicInOut(t)
    [] func = "QuartInOut" -> EaseQuartInOut(t)
    [] func = "QuintInOut" -> EaseQuintInOut(t)
    [] func = "CircInOut" -> EaseCircInOut(t)
    [] func = "ElasticInOut" -> EaseElasticInOut(t)
    [] func = "BackInOut" -> EaseBackInOut(t)
    [] func = "BounceInOut" -> EaseBounceInOut(t)
    [] OTHER -> EaseQuadInOut(t)

GetEasedValue(func, t) ==
  CASE func = "Linear" -> EaseLinear(t)
    [] func = "SineInOut" -> EaseSineInOut(t)
    [] func = "QuadInOut" -> EaseQuadInOut(t)
    [] func = "CubicInOut" -> EaseCubicInOut(t)
    [] func = "QuartInOut" -> EaseQuartInOut(t)
    [] func = "QuintInOut" -> EaseQuintInOut(t)
    [] func = "CircInOut" -> EaseCircInOut(t)
    [] func = "ElasticInOut" -> EaseElasticInOut(t)
    [] func = "BackInOut" -> EaseBackInOut(t)
    [] func = "BounceInOut" -> EaseBounceInOut(t)
    [] OTHER -> EaseLinear(t)

(***************************************************************************)
(* Spotlight.cpp: the operations as functions of the object e and the      *)
(* clock value t.  Each returns [eng |-> the object afterwards,            *)
(* out |-> the colours passed to writeLeds, in order].                     *)
(***************************************************************************)
Black == RGB(0, 0, 0)

ZeroLCH == LCH(R(0), R(0), R(0))

\* A constructed object whose _currentRGB is not zero.
InitEngLitUp ==
  [ currentRGB |-> RGB(255, 255, 255),
    animationStartTime |-> 0,
    isAnimating |-> FALSE,
    currentHue |-> R(0),
    startHue |-> R(0),
    saturation |-> R(1),
    value |-> R(1),
    rotationPeriod |-> 0,
    rotationDirection |-> "Clockwise",
    colorCycleList |-> <<>>,
    colorCycleCount |-> 0,
    currentColorIndex |-> 0,
    startLCH |-> ZeroLCH,
    transitionDuration |-> DefaultTransitionDurationMs,
    currentEasing |-> "Linear",
    isRandom |-> FALSE,
    isTransitioning |-> FALSE,
    transitionStartTime |-> 0,
    fixedTransitionDuration |-> DefaultFixedTransitionDurationMs,
    fixedTransitionEasing |-> "CubicInOut",
    fixedStartLCH |-> ZeroLCH,
    fixedEndLCH |-> ZeroLCH ]

\* The members after construction.  The constructor's initialiser list sets
\* the flags and parameters; _currentRGB, the time anchors and the LCH
\* members are not in it, and hold the zero bytes of the static object
\* (spot.cpp declares the Spotlight at namespace scope).
InitEng ==
  [ currentRGB |-> Black,
    animationStartTime |-> 0,
    isAnimating |-> FALSE,
    currentHue |-> R(0),
    startHue |-> R(0),
    saturation |-> R(1),
    value |-> R(1),
    rotationPeriod |-> 0,
    rotationDirection |-> "Clockwise",
    colorCycleList |-> <<>>,
    colorCycleCount |-> 0,
    currentColorIndex |-> 0,
    startLCH |-> ZeroLCH,
    transitionDuration |-> DefaultTransitionDurationMs,
    currentEasing |-> "Linear",
    isRandom |-> FALSE,
    isTransitioning |-> FALSE,
    transitionStartTime |-> 0,
    fixedTransitionDuration |-> DefaultFixedTransitionDurationMs,
    fixedTransitionEasing |-> "CubicInOut",
    fixedStartLCH |-> ZeroLCH,
    fixedEndLCH |-> ZeroLCH ]

\* The unsigned long (32 bits) millis() returns at time t, as its two
\* 16-bit halves <<high, low>>.
Millis(t) == <<(t \div 65536) % 65536, t % 65536>>

\* a - b in unsigned 32-bit arithmetic, a and b given by their halves.  A
\* difference of 2^31 or more is beyond TLC's integers.
UnsignedDiff(a, b) ==
  LET borrow == IF a[2] < b[2] THEN 1 ELSE 0
      lo == (a[2] - b[2]) % 65536
      hi == (a[1] - b[1] - borrow) % 65536
  IN  hi * 65536 + lo

\* An elapsed time that is 0 while the counter reads less than the anchor.
ElapsedNoWrap(t, anchor) ==
  LET a == Millis(t)
      b == Millis(anchor)
  IN  IF a[1] < b[1] \/ (a[1] = b[1] /\ a[2] < b[2]) THEN 0
      ELSE UnsignedDiff(a, b)

\* unsigned long elapsedTime = now - anchor
Elapsed(t, anchor) == UnsignedDiff(Millis(t), Millis(anchor))

\* (float)elapsedTime / (duration * 1000.0)
Progress(elapsed, durationMs) == Rat(elapsed, durationMs)

\* _colorCycleList[i], i counted from 0; entries never written are zero.
ListAt(e, i) ==
  IF i + 1 <= Len(e.colorCycleList) THEN e.colorCycleList[i + 1] ELSE ZeroLCH

\* writeLeds that drives the pins without recording the colour.
WriteLedsNoRecord(e, color) == e

WriteLeds(e, color) == [e EXCEPT !.currentRGB = color]

\* StopAllAnimations that leaves the wheel period set.
StopAllAnimationsKeepsWheel(e) ==
  [e EXCEPT !.isAnimating = FALSE,
            !.isTransitioning = FALSE,
            !.colorCycleCount = 0]

StopAllAnimations(e) ==
  [e EXCEPT !.isAnimating = FALSE,
            !.isTransitioning = FALSE,
            !.rotationPeriod = 0,
            !.colorCycleCount = 0]

GetCurrentRGB(e, t) ==
  IF e.isTransitioning
  THEN LET p == MinOne(Progress(Elapsed(t, e.transitionStartTime),
                                e.fixedTransitionDuration))
           easedT == GetEasedValue(e.fixedTransitionEasing, p)
       IN  LchToRgb(Interpolate(e.fixedStartLCH, e.fixedEndLCH, easedT))
  ELSE IF e.rotationPeriod > 0
  THEN HsvToRgb(e.currentHue, e.saturation, e.value)
  ELSE IF e.colorCycleCount > 0
  THEN LET p == MinOne(Progress(Elapsed(t, e.animationStartTime),
                                e.transitionDuration))
           easedT == GetEasedValue(e.currentEasing, p)
       IN  LchToRgb(Interpolate(e.startLCH, ListAt(e, e.currentColorIndex), easedT))
  ELSE e.currentRGB

\* The fixed-transition branch of update.
UpdateTransition(e, t) ==
  LET p == Progress(Elapsed(t, e.transitionStartTime), e.fixedTransitionDuration)
      easedT == GetEasedValue(e.fixedTransitionEasing, p)
  IN  IF Le(R(1), p)
      THEN LET c == LchToRgb(e.fixedEndLCH)
           IN  [eng |-> [WriteLeds(e, c) EXCEPT !.isTransitioning = FALSE],
                out |-> <<c>>]
      ELSE LET c == LchToRgb(Interpolate(e.fixedStartLCH, e.fixedEndLCH, easedT))
           IN  [eng |-> WriteLeds(e, c), out |-> <<c>>]

\* fmod(_startHue + hueDelta, 360.0), plus 360 when negative.
WheelHue(e, t) ==
  LET d0 == Rat(Elapsed(t, e.animationStartTime) * 360, e.rotationPeriod)
      hueDelta == IF e.rotationDirection = "CounterClockwise" THEN Neg(d0) ELSE d0
      h == Fmod(Add(e.startHue, hueDelta), R(360))
  IN  IF Lt(h, R(0)) THEN Add(h, R(360)) ELSE h

\* A colour wheel branch that stops the animation after one full turn.
UpdateWheelOneTurn(e, t) ==
  LET h == WheelHue(e, t)
      c == HsvToRgb(h, e.saturation, e.value)
      done == Elapsed(t, e.animationStartTime) >= e.rotationPeriod
  IN  [eng |-> WriteLeds([e EXCEPT !.currentHue = h,
                                   !.isAnimating = ~done], c),
       out |-> <<c>>]

\* The colour wheel branch of update.
UpdateWheel(e, t) ==
  LET h == WheelHue(e, t)
      c == HsvToRgb(h, e.saturation, e.value)
  IN  [eng |-> WriteLeds([e EXCEPT !.currentHue = h], c), out |-> <<c>>]

\* NextIndex that steps past the last entry instead of returning to 0.
NextIndexNoWrap(e, rnd) ==
  IF e.colorCycleCount > 1 /\ e.isRandom THEN rnd
  ELSE e.currentColorIndex + 1

\* The index after a completed leg; rnd is the draw the redraw loop ends on.
NextIndex(e, rnd) ==
  IF e.colorCycleCount > 1 /\ e.isRandom THEN rnd
  ELSE (e.currentColorIndex + 1) % e.colorCycleCount

\* A colour cycle branch that writes the finished leg's target and then
\* falls through to write the first colour of the next leg as well.
UpdateCycleFallsThrough(e, t, rnd) ==
  LET elapsed == Elapsed(t, e.animationStartTime)
  IN  IF elapsed >= e.transitionDuration
      THEN LET c == LchToRgb(ListAt(e, e.currentColorIndex))
           IN  [eng |-> [WriteLeds(e, c) EXCEPT
                           !.startLCH = ListAt(e, e.currentColorIndex),
                           !.currentColorIndex = NextIndex(e, rnd),
                           !.animationStartTime = t],
                out |-> <<c, c>>]
      ELSE LET easedT == GetEasedValue(e.currentEasing,
                                       Progress(elapsed, e.transitionDuration))
               c == LchToRgb(Interpolate(e.startLCH,
                                         ListAt(e, e.currentColorIndex), easedT))
           IN  [eng |-> WriteLeds(e, c), out |-> <<c>>]

\* The colour cycle branch of update.
UpdateCycle(e, t, rnd) ==
  LET elapsed == Elapsed(t, e.animationStartTime)
  IN  IF elapsed >= e.transitionDuration
      THEN [eng |-> [e EXCEPT !.startLCH = ListAt(e, e.currentColorIndex),
                              !.currentColorIndex = NextIndex(e, rnd),
                              !.animationStartTime = t],
            out |-> <<>>]
      ELSE LET easedT == GetEasedValue(e.currentEasing,
                                       Progress(elapsed, e.transitionDuration))
               c == LchToRgb(Interpolate(e.startLCH,
                                         ListAt(e, e.currentColorIndex), easedT))
           IN  [eng |-> WriteLeds(e, c), out |-> <<c>>]

\* Update that serves the wheel without testing the period.
UpdateNoPeriodTest(e, t, rnd) ==
  IF e.isTransitioning THEN UpdateTransition(e, t)
  ELSE IF ~e.isAnimating THEN [eng |-> e, out |-> <<>>]
  ELSE IF e.colorCycleCount > 0 THEN UpdateCycle(e, t, rnd)
  ELSE UpdateWheel(e, t)

Update(e, t, rnd) ==
  IF e.isTransitioning THEN UpdateTransition(e, t)
  ELSE IF ~e.isAnimating THEN [eng |-> e, out |-> <<>>]
  ELSE IF e.rotationPeriod > 0 THEN UpdateWheel(e, t)
  ELSE IF e.colorCycleCount > 0 THEN UpdateCycle(e, t, rnd)
  ELSE [eng |-> e, out |-> <<>>]

\* The progress values update passes to getEasedValue, in order.  The
\* fixed-transition branch calls it before it tests t >= 1.0.
UpdateEasingArgs(e, t) ==
  IF e.isTransitioning
  THEN <<Progress(Elapsed(t, e.transitionStartTime), e.fixedTransitionDuration)>>
  ELSE IF ~e.isAnimating \/ e.rotationPeriod > 0 \/ e.colorCycleCount <= 0 THEN <<>>
  ELSE IF Elapsed(t, e.animationStartTime) >= e.transitionDuration THEN <<>>
  ELSE <<Progress(Elapsed(t, e.animationStartTime), e.transitionDuration)>>

\* The progress values getCurrentRGB passes to getEasedValue, in order.
GetCurrentRGBEasingArgs(e, t) ==
  IF e.isTransitioning
  THEN <<MinOne(Progress(Elapsed(t, e.transitionStartTime), e.fixedTransitionDuration))>>
  ELSE IF e.rotationPeriod > 0 THEN <<>>
  ELSE IF e.colorCycleCount > 0
  THEN <<MinOne(Progress(Elapsed(t, e.animationStartTime), e.transitionDuration))>>
  ELSE <<>>

SetRGB(e, t, rgb) ==
  LET startColor == GetCurrentRGB(e, t)
  IN  [eng |-> [StopAllAnimations(e) EXCEPT
                  !.fixedStartLCH = RgbToLch(startColor),
                  !.fixedEndLCH = RgbToLch(rgb),
                  !.isTransitioning = TRUE,
                  !.transitionStartTime = t],
       out |-> <<>>]

\* SetColorTemperature that does not cancel the running mode.
SetColorTemperatureNoStop(e, t, kelvin, brightness) ==
  LET k == KelvinToRgb(kelvin)
      rgb == RGB(CastU8(Mul(R(k.r), brightness)),
                 CastU8(Mul(R(k.g), brightness)),
                 CastU8(Mul(R(k.b), brightness)))
  IN  [eng |-> WriteLeds(e, rgb), out |-> <<rgb>>]

SetColorTemperature(e, t, kelvin, brightness) ==
  LET k == KelvinToRgb(kelvin)
      rgb == RGB(CastU8(Mul(R(k.r), brightness)),
                 CastU8(Mul(R(k.g), brightness)),
                 CastU8(Mul(R(k.b), brightness)))
  IN  [eng |-> WriteLeds([StopAllAnimations(e) EXCEPT !.currentRGB = rgb], rgb),
       out |-> <<rgb>>]

\* EnableColorWheelMode that does not cancel the running mode first.
EnableColorWheelModeNoStop(e, t, periodMs, direction) ==
  [eng |-> [e EXCEPT !.startHue = RgbToHsv(e.currentRGB).h,
                     !.rotationPeriod = periodMs,
                     !.rotationDirection = direction,
                     !.isAnimating = TRUE,
                     !.animationStartTime = t],
   out |-> <<>>]

EnableColorWheelMode(e, t, periodMs, direction) ==
  LET e1 == StopAllAnimations(e)
      startColor == GetCurrentRGB(e1, t)
  IN  [eng |-> [e1 EXCEPT !.startHue = RgbToHsv(startColor).h,
                          !.rotationPeriod = periodMs,
                          !.rotationDirection = direction,
                          !.isAnimating = TRUE,
                          !.animationStartTime = t],
       out |-> <<>>]

\* A shuffle loop whose swap copies entry j over entry i and loses entry i.
RECURSIVE ShuffleLosesTemp(_, _, _, _)
ShuffleLosesTemp(list, n, js, i) ==
  IF i >= n - 1 THEN list
  ELSE LET j == js[i + 1]
           copied == [k \in 1..Len(list) |-> IF k = i + 1 THEN list[j + 1] ELSE list[k]]
       IN  ShuffleLosesTemp(copied, n, js, i + 1)

\* The shuffle loop from position i (counted from 0): js[i + 1] is the
\* value random(i, count) returned at position i.
RECURSIVE Shuffle(_, _, _, _)
Shuffle(list, n, js, i) ==
  IF i >= n - 1 THEN list
  ELSE LET j == js[i + 1]
           swapped == [k \in 1..Len(list) |->
                         IF k = i + 1 THEN list[j + 1]
                         ELSE IF k = j + 1 THEN list[i + 1]
                         ELSE list[k]]
       IN  Shuffle(swapped, n, js, i + 1)

\* The draws the shuffle loop can make for n entries.
ShuffleDraws(n) ==
  IF n <= 1 THEN {<<>>}
  ELSE {js \in [1..(n - 1) -> 0..(n - 1)] : \A i \in 1..(n - 1) : js[i] >= i - 1}

\* EnableColorCycleMode that stores the count it is given.
EnableColorCycleModeNoTruncation(e, t, colors, count, isRandom, js) ==
  LET e1 == StopAllAnimations(e)
      n == count
      old == e1.colorCycleList
      len == IF Len(old) > n THEN Len(old) ELSE n
      filled == [k \in 1..len |-> IF k <= n THEN RgbToLch(colors[k]) ELSE old[k]]
      e2 == [e1 EXCEPT !.colorCycleCount = n,
                       !.isRandom = isRandom,
                       !.colorCycleList = filled]
      list == IF isRandom THEN Shuffle(filled, n, js, 0) ELSE filled
  IN  IF n = 0 THEN [eng |-> e2, out |-> <<>>]
      ELSE [eng |-> [e2 EXCEPT !.colorCycleList = list,
                               !.currentColorIndex = 0,
                               !.startLCH = list[1],
                               !.isAnimating = TRUE,
                               !.animationStartTime = t],
            out |-> <<>>]

\* EnableColorCycleMode that marks the engine animating before it tests
\* for an empty list.
EnableColorCycleModeAnimatesEmpty(e, t, colors, count, isRandom, js) ==
  LET e1 == StopAllAnimations(e)
      n == IF count < MAX_COLORS THEN count ELSE MAX_COLORS
      old == e1.colorCycleList
      len == IF Len(old) > n THEN Len(old) ELSE n
      filled == [k \in 1..len |-> IF k <= n THEN RgbToLch(colors[k]) ELSE old[k]]
      e2 == [e1 EXCEPT !.colorCycleCount = n,
                       !.isRandom = isRandom,
                       !.colorCycleList = filled,
                       !.isAnimating = TRUE,
                       !.animationStartTime = t]
      list == IF isRandom THEN Shuffle(filled, n, js, 0) ELSE filled
  IN  IF n = 0 THEN [eng |-> e2, out |-> <<>>]
      ELSE [eng |-> [e2 EXCEPT !.colorCycleList = list,
                               !.currentColorIndex = 0,
                               !.startLCH = list[1]],
            out |-> <<>>]

\* EnableColorCycleMode that keeps the index of the cycle it replaces.
EnableColorCycleModeKeepsIndex(e, t, colors, count, isRandom, js) ==
  LET e1 == StopAllAnimations(e)
      n == IF count < MAX_COLORS THEN count ELSE MAX_COLORS
      old == e1.colorCycleList
      len == IF Len(old) > n THEN Len(old) ELSE n
      filled == [k \in 1..len |-> IF k <= n THEN RgbToLch(colors[k]) ELSE old[k]]
      e2 == [e1 EXCEPT !.colorCycleCount = n,
                       !.isRandom = isRandom,
                       !.colorCycleList = filled]
      list == IF isRandom THEN Shuffle(filled, n, js, 0) ELSE filled
  IN  IF n = 0 THEN [eng |-> e2, out |-> <<>>]
      ELSE [eng |-> [e2 EXCEPT !.colorCycleList = list,
                               !.startLCH = list[1],
                               !.isAnimating = TRUE,
                               !.animationStartTime = t],
            out |-> <<>>]

EnableColorCycleMode(e, t, colors, count, isRandom, js) ==
  LET e1 == StopAllAnimations(e)
      n == IF count < MAX_COLORS THEN count ELSE MAX_COLORS
      old == e1.colorCycleList
      len == IF Len(old) > n THEN Len(old) ELSE n
      filled == [k \in 1..len |-> IF k <= n THEN RgbToLch(colors[k]) ELSE old[k]]
      e2 == [e1 EXCEPT !.colorCycleCount = n,
                       !.isRandom = isRandom,
                       !.colorCycleList = filled]
      list == IF isRandom THEN Shuffle(filled, n, js, 0) ELSE filled
  IN  IF n = 0 THEN [eng |-> e2, out |-> <<>>]
      ELSE [eng |-> [e2 EXCEPT !.colorCycleList = list,
                               !.currentColorIndex = 0,
                               !.startLCH = list[1],
                               !.isAnimating = TRUE,
                               !.animationStartTime = t],
            out |-> <<>>]

SetCycleDuration(e, durationMs) == [e EXCEPT !.transitionDuration = durationMs]

\* SetCycleEasing that sets the fixed transition's curve as well.
SetCycleEasingBothCurves(e, easing) ==
  [e EXCEPT !.currentEasing = easing, !.fixedTransitionEasing = easing]

SetCycleEasing(e, easing) == [e EXCEPT !.currentEasing = easing]

SetTransitionDuration(e, durationMs) == [e EXCEPT !.fixedTransitionDuration = durationMs]

SetTransitionEasing(e, easing) == [e EXCEPT !.fixedTransitionEasing = easing]

(***************************************************************************)
(* The inputs the model calls the engine with.                             *)
(***************************************************************************)
Red == RGB(255, 0, 0)

Green == RGB(0, 255, 0)

Blue == RGB(0, 0, 255)

White == RGB(255, 255, 255)

Rose == RGB(102, 51, 51)

Palette == {Red, White, Rose}

KelvinInputs == {<<6600, R(1)>>, <<1500, Rat(1, 2)>>, <<1500, R(2)>>}

PeriodsMs == {-10000, 0, 10000}

Directions == {"Clockwise", "CounterClockwise"}

\* One colour more than the list holds; the last one is the only red.
LongColors ==
  [k \in 1..(MAX_COLORS + 1) |->
     IF k = MAX_COLORS + 1 THEN Red ELSE IF k % 2 = 1 THEN Blue ELSE Green]

CycleInputs == {<<>>, <<White>>, <<Red, Green, Blue>>, LongColors}

DurationsMs == {-10000, 0, 1000}

Easings == {"Linear", "CubicInOut"}

TickDeltas == {500, 5000}

(***************************************************************************)
(* The state machine.                                                      *)
(***************************************************************************)
\* No request has been handled yet.
NoReply ==
  [status |-> 0, hasColors |-> FALSE, given |-> <<>>, colors |-> <<>>, count |-> 0,
   overrun |-> FALSE]

vars ==
  <<eng, now, castUB, wrote, lastOp, target, probe, sampled, kelvinCall, easingCall,
    roundTrip, redraw, reply, ticks, calls>>

Init ==
  /\ eng = InitEng
  /\ now = 0
  /\ castUB \in {"saturate", "wrap"}
  /\ wrote = <<>>
  /\ lastOp = "construct"
  /\ target = Black
  /\ probe = Black
  /\ sampled = Black
  /\ kelvinCall = <<>>
  /\ easingCall = <<>>
  /\ roundTrip = <<>>
  /\ redraw = [pc |-> "idle", newIndex |-> 0]
  /\ reply = NoReply
  /\ ticks = 0
  /\ calls = 0

\* The effect of an operation with result r, recorded as op.
Effect(r, op) ==
  /\ eng' = r.eng
  /\ wrote' = r.out
  /\ lastOp' = op

Tick ==
  /\ ticks < MaxTicks
  /\ \E d \in TickDeltas : now' = now + d
  /\ ticks' = ticks + 1
  /\ wrote' = <<>>
  /\ lastOp' = "tick"
  /\ UNCHANGED <<reply, redraw, roundTrip, easingCall, kelvinCall, sampled, eng, castUB, target, probe, calls>>

\* The values random(0, _colorCycleCount) can return during one run of the
\* redraw loop, in order: the loop draws until a value differs from the
\* current index.
DrawSequences(e) ==
  LET all == UNION {[1..n -> 0..(e.colorCycleCount - 1)] : n \in 1..MaxRedraws}
  IN  {d \in all : /\ d[Len(d)] # e.currentColorIndex
                   /\ \A k \in 1..(Len(d) - 1) : d[k] = e.currentColorIndex}

\* A redraw loop that keeps its first draw.
RedrawLoopNoRetry(e, draws, i) == draws[i]

\* do { newIndex = random(0, _colorCycleCount); }
\* while (newIndex == _currentColorIndex); from draw number i on.
RECURSIVE RedrawLoop(_, _, _)
RedrawLoop(e, draws, i) ==
  LET newIndex == draws[i]
  IN  IF newIndex = e.currentColorIndex THEN RedrawLoop(e, draws, i + 1)
      ELSE newIndex

\* The values the redraw loop of update can end on.  Nothing is drawn
\* unless the cycle is random and has more than one entry.
RandomDraws(e) ==
  IF e.colorCycleCount > 1 /\ e.isRandom
  THEN {RedrawLoop(e, draws, 1) : draws \in DrawSequences(e)}
  ELSE {0}

UpdateCall ==
  /\ \E rnd \in RandomDraws(eng) : Effect(Update(eng, now, rnd), "update")
  /\ UNCHANGED <<reply, redraw, roundTrip, easingCall, kelvinCall, sampled, now, castUB, target, probe, ticks, calls>>

\* A getCurrentRGB that stores the colour it computed in _currentRGB.
GetCurrentRGBCallCaching ==
  /\ calls < MaxCalls
  /\ calls' = calls + 1
  /\ probe' = GetCurrentRGB(eng, now)
  /\ eng' = [eng EXCEPT !.currentRGB = GetCurrentRGB(eng, now)]
  /\ wrote' = <<>>
  /\ lastOp' = "getCurrentRGB"
  /\ UNCHANGED <<reply, redraw, roundTrip, easingCall, kelvinCall, sampled, now, castUB, target, ticks>>

GetCurrentRGBCall ==
  /\ calls < MaxCalls
  /\ calls' = calls + 1
  /\ probe' = GetCurrentRGB(eng, now)
  /\ wrote' = <<>>
  /\ lastOp' = "getCurrentRGB"
  /\ UNCHANGED <<reply, redraw, roundTrip, easingCall, kelvinCall, sampled, eng, now, castUB, target, ticks>>

SetRGBCall ==
  /\ calls < MaxCalls
  /\ calls' = calls + 1
  /\ \E rgb \in Palette :
       /\ Effect(SetRGB(eng, now, rgb), "setRGB")
       /\ target' = rgb
  /\ UNCHANGED <<reply, redraw, roundTrip, easingCall, kelvinCall, sampled, now, castUB, probe, ticks>>

SetColorTemperatureCall ==
  /\ calls < MaxCalls
  /\ calls' = calls + 1
  /\ \E kb \in KelvinInputs :
       /\ Effect(SetColorTemperature(eng, now, kb[1], kb[2]), "setColorTemperature")
       /\ kelvinCall' = kb
  /\ UNCHANGED <<reply, redraw, roundTrip, easingCall, sampled, now, castUB, target, probe, ticks>>

EnableColorWheelModeCall ==
  /\ calls < MaxCalls
  /\ calls' = calls + 1
  /\ \E p \in PeriodsMs, d \in Directions :
       Effect(EnableColorWheelMode(eng, now, p, d), "enableColorWheelMode")
  /\ sampled' = GetCurrentRGB(StopAllAnimations(eng), now)
  /\ UNCHANGED <<reply, redraw, roundTrip, easingCall, kelvinCall, now, castUB, target, probe, ticks>>

EnableColorCycleModeCall ==
  /\ calls < MaxCalls
  /\ calls' = calls + 1
  /\ \E colors \in CycleInputs :
       \E isRandom \in (IF Len(colors) > 3 THEN {FALSE}
                        ELSE IF Len(colors) = 1 THEN {TRUE} ELSE BOOLEAN) :
       \E js \in (IF isRandom THEN ShuffleDraws(Len(colors)) ELSE {<<>>}) :
         Effect(EnableColorCycleMode(eng, now, colors, Len(colors), isRandom, js),
                "enableColorCycleMode")
  /\ UNCHANGED <<reply, redraw, roundTrip, easingCall, kelvinCall, sampled, now, castUB, target, probe, ticks>>

SetCycleDurationCall ==
  /\ calls < MaxCalls
  /\ calls' = calls + 1
  /\ \E d \in DurationsMs :
       Effect([eng |-> SetCycleDuration(eng, d), out |-> <<>>], "setCycleDuration")
  /\ UNCHANGED <<reply, redraw, roundTrip, easingCall, kelvinCall, sampled, now, castUB, target, probe, ticks>>

SetCycleEasingCall ==
  /\ calls < MaxCalls
  /\ calls' = calls + 1
  /\ \E f \in Easings :
       Effect([eng |-> SetCycleEasing(eng, f), out |-> <<>>], "setCycleEasing")
  /\ UNCHANGED <<reply, redraw, roundTrip, easingCall, kelvinCall, sampled, now, castUB, target, probe, ticks>>

SetTransitionDurationCall ==
  /\ calls < MaxCalls
  /\ calls' = calls + 1
  /\ \E d \in DurationsMs :
       Effect([eng |-> SetTransitionDuration(eng, d), out |-> <<>>],
              "setTransitionDuration")
  /\ UNCHANGED <<reply, redraw, roundTrip, easingCall, kelvinCall, sampled, now, castUB, target, probe, ticks>>

SetTransitionEasingCall ==
  /\ calls < MaxCalls
  /\ calls' = calls + 1
  /\ \E f \in Easings :
       Effect([eng |-> SetTransitionEasing(eng, f), out |-> <<>>],
              "setTransitionEasing")
  /\ UNCHANGED <<reply, redraw, roundTrip, easingCall, kelvinCall, sampled, now, castUB, target, probe, ticks>>

Next ==
  \/ Tick
  \/ UpdateCall
  \/ GetCurrentRGBCall
  \/ SetRGBCall
  \/ SetColorTemperatureCall
  \/ EnableColorWheelModeCall
  \/ EnableColorCycleModeCall
  \/ SetCycleDurationCall
  \/ SetCycleEasingCall
  \/ SetTransitionDurationCall
  \/ SetTransitionEasingCall

Spec == Init /\ [][Next]_vars

(***************************************************************************)
(* The program around the wrap of the millisecond counter: nothing was     *)
(* called since construction, and the counter is within a second of 2^32.  *)
(***************************************************************************)
WrapInit ==
  /\ eng = InitEng
  /\ now \in {-700, -200}
  /\ castUB \in {"saturate", "wrap"}
  /\ wrote = <<>>
  /\ lastOp = "construct"
  /\ target = Black
  /\ probe = Black
  /\ sampled = Black
  /\ kelvinCall = <<>>
  /\ easingCall = <<>>
  /\ roundTrip = <<>>
  /\ redraw = [pc |-> "idle", newIndex |-> 0]
  /\ reply = NoReply
  /\ ticks = 0
  /\ calls = 0

WrapNext ==
  \/ Tick
  \/ UpdateCall
  \/ SetRGBCall
  \/ EnableColorCycleModeCall
  \/ SetCycleDurationCall
  \/ SetTransitionDurationCall

WrapSpec == WrapInit /\ [][WrapNext]_vars

(***************************************************************************)
(* The easing evaluator on its own: getEasedValue called directly.         *)
(***************************************************************************)
EasingCurves ==
  {"Linear", "SineInOut", "QuadInOut", "CubicInOut", "QuartInOut", "QuintInOut",
   "CircInOut", "ElasticInOut", "BackInOut", "BounceInOut"}

\* Values of the enumeration's type that name no curve: the enumerators are
\* 0..9 and the type holds 0..15.
UnknownCurves == {"Unknown10", "Unknown15"}

\* The progress values the evaluator is called with: the two ends, values
\* between them, and values outside [0, 1] that update passes (a negative
\* duration, an elapsed time beyond the duration).  The curves built on
\* cos, sqrt, pow and sin get the values at which they are rational, and
\* BackInOut the values whose products stay within 32 bits.
EasingInputs(func) ==
  CASE func = "SineInOut" -> {R(0), Rat(1, 2), R(1), Rat(5, 2)}
    [] func = "CircInOut" -> {R(0), Rat(3, 10), Rat(2, 5), Rat(1, 2), R(1), Rat(5, 2)}
    [] func \in {"ElasticInOut", "BackInOut"} -> {R(0), R(1)}
    [] OTHER -> {Rat(-1, 20), R(0), Rat(1, 10), Rat(1, 4), Rat(1, 2), Rat(3, 4),
                 Rat(9, 10), R(1), Rat(5, 2)}

GetEasedValueCall ==
  /\ \E func \in EasingCurves \cup UnknownCurves :
       \E t \in EasingInputs(func) :
         easingCall' = <<func, t, GetEasedValue(func, t)>>
  /\ lastOp' = "getEasedValue"
  /\ UNCHANGED <<reply, eng, now, castUB, wrote, target, probe, sampled, kelvinCall, roundTrip,
                 redraw, ticks, calls>>

EasingNext == GetEasedValueCall

EasingSpec == Init /\ [][EasingNext]_vars

(***************************************************************************)
(* The colour conversions on their own: rgbToLch and lchToRgb called       *)
(* directly.                                                               *)
(***************************************************************************)
ChannelSamples == {0, 51, 102, 128, 255}

\* The colours converted: the primaries and their mixes, white, black,
\* grays, and colours that are neither gray nor fully saturated.
ColorSamples ==
  {RGB(r, g, b) : r \in ChannelSamples, g \in ChannelSamples, b \in ChannelSamples}

RoundTripCall ==
  /\ \E c \in ColorSamples : roundTrip' = <<c, LchToRgb(RgbToLch(c))>>
  /\ lastOp' = "roundTrip"
  /\ UNCHANGED <<reply, eng, now, castUB, wrote, target, probe, sampled, kelvinCall, easingCall,
                 redraw, ticks, calls>>

ColorNext == RoundTripCall

ColorSpec == Init /\ [][ColorNext]_vars

(***************************************************************************)
(* update step by step: the redraw loop of a completed random leg runs one *)
(* draw and one test at a time.  update runs to its end before loop() or a *)
(* handler does anything else, so every other action waits for it.  The    *)
(* branches of update without a loop are one step each.                    *)
(***************************************************************************)
\* update reaches the redraw loop: a leg of a random cycle with more than
\* one entry has ended.
NeedsRedrawAnyCount(e, t) ==
  /\ ~e.isTransitioning
  /\ e.isAnimating
  /\ ~(e.rotationPeriod > 0)
  /\ e.colorCycleCount > 0
  /\ Elapsed(t, e.animationStartTime) >= e.transitionDuration
  /\ e.isRandom

NeedsRedraw(e, t) ==
  /\ ~e.isTransitioning
  /\ e.isAnimating
  /\ ~(e.rotationPeriod > 0)
  /\ e.colorCycleCount > 0
  /\ Elapsed(t, e.animationStartTime) >= e.transitionDuration
  /\ e.colorCycleCount > 1
  /\ e.isRandom

Returned == redraw.pc = "idle"

LoopTick == Returned /\ Tick

LoopEnableColorCycleMode == Returned /\ EnableColorCycleModeCall

\* An update that does not reach the redraw loop.
LoopUpdate == Returned /\ ~NeedsRedraw(eng, now) /\ UpdateCall

\* update up to the head of the loop: _startLCH is assigned.
LoopEnter ==
  /\ Returned
  /\ NeedsRedraw(eng, now)
  /\ eng' = [eng EXCEPT !.startLCH = ListAt(eng, eng.currentColorIndex)]
  /\ redraw' = [redraw EXCEPT !.pc = "draw"]
  /\ wrote' = <<>>
  /\ lastOp' = "updateEntered"
  /\ UNCHANGED <<reply, roundTrip, easingCall, kelvinCall, sampled, now, castUB, target, probe,
                 ticks, calls>>

\* newIndex = random(0, _colorCycleCount) returns v.
Draw(v) ==
  /\ redraw.pc = "draw"
  /\ redraw' = [pc |-> "test", newIndex |-> v]
  /\ UNCHANGED <<reply, roundTrip, easingCall, kelvinCall, sampled, eng, now, castUB, wrote,
                 lastOp, target, probe, ticks, calls>>

LoopDrawCurrent == Draw(eng.currentColorIndex)

LoopDrawOther ==
  \E v \in (0..(eng.colorCycleCount - 1)) \ {eng.currentColorIndex} : Draw(v)

\* while (newIndex == _currentColorIndex), and after the loop the rest of
\* the branch.
LoopTest ==
  /\ redraw.pc = "test"
  /\ IF redraw.newIndex = eng.currentColorIndex
     THEN /\ redraw' = [redraw EXCEPT !.pc = "draw"]
          /\ UNCHANGED <<eng, wrote, lastOp>>
     ELSE /\ redraw' = [redraw EXCEPT !.pc = "idle"]
          /\ eng' = [eng EXCEPT !.currentColorIndex = redraw.newIndex,
                                !.animationStartTime = now]
          /\ wrote' = <<>>
          /\ lastOp' = "update"
  /\ UNCHANGED <<reply, roundTrip, easingCall, kelvinCall, sampled, now, castUB, target, probe,
                 ticks, calls>>

LoopNext ==
  \/ LoopTick
  \/ LoopEnableColorCycleMode
  \/ LoopUpdate
  \/ LoopEnter
  \/ LoopDrawCurrent
  \/ LoopDrawOther
  \/ LoopTest

\* The test follows the draw, and random does not return the current index
\* for ever.
LoopSpec ==
  Init /\ [][LoopNext]_vars /\ WF_vars(LoopTest) /\ SF_vars(LoopDrawOther)

(***************************************************************************)
(* Helpers of the properties.                                              *)
(***************************************************************************)
\* The mode update would serve: its branches in their order.
TransitionActive(e) == e.isTransitioning

WheelActive(e) == ~e.isTransitioning /\ e.isAnimating /\ e.rotationPeriod > 0

CycleActive(e) ==
  ~e.isTransitioning /\ e.isAnimating /\ e.rotationPeriod <= 0 /\ e.colorCycleCount > 0

Idle(e) == ~TransitionActive(e) /\ ~WheelActive(e) /\ ~CycleActive(e)

B2N(b) == IF b THEN 1 ELSE 0

\* x mod 360 in [0, 360), by floor (x finite).
Mod360(x) ==
  LET q == x[1] \div (x[2] * 360)
  IN  Sub(x, R(360 * q))

\* A mode-setter call, by number.
ModeCallIds == 1..8

ApplyModeCall(i, e, t) ==
  CASE i = 1 -> SetRGB(e, t, Red)
    [] i = 2 -> SetRGB(e, t, Rose)
    [] i = 3 -> SetColorTemperature(e, t, 6600, R(1))
    [] i = 4 -> EnableColorWheelMode(e, t, 10000, "Clockwise")
    [] i = 5 -> EnableColorWheelMode(e, t, 0, "CounterClockwise")
    [] i = 6 -> EnableColorCycleMode(e, t, <<>>, 0, FALSE, <<>>)
    [] i = 7 -> EnableColorCycleMode(e, t, <<Red, Green, Blue>>, 3, FALSE, <<>>)
    [] OTHER -> EnableColorCycleMode(e, t, <<Red, Green, Blue>>, 3, TRUE, <<2, 1>>)

\* What a mode-setter decides by itself: the active mode and the members of
\* that mode which it assigns from its arguments and the clock.
ModeView(e) ==
  [ isTransitioning |-> e.isTransitioning,
    isAnimating |-> e.isAnimating,
    rotationPeriod |-> e.rotationPeriod,
    colorCycleCount |-> e.colorCycleCount,
    transition |-> IF e.isTransitioning
                   THEN <<e.fixedEndLCH, e.transitionStartTime>> ELSE <<>>,
    wheel |-> IF e.isAnimating /\ e.colorCycleCount = 0
              THEN <<e.rotationDirection, e.animationStartTime>> ELSE <<>>,
    cycle |-> IF e.colorCycleCount > 0
              THEN <<SubSeq(e.colorCycleList, 1, e.colorCycleCount),
                     e.currentColorIndex, e.startLCH, e.isRandom,
                     e.animationStartTime>>
              ELSE <<>>,
    durations |-> <<e.transitionDuration, e.fixedTransitionDuration>>,
    easings |-> <<e.currentEasing, e.fixedTransitionEasing>> ]

(***************************************************************************)
(* C1.  At most one of: fixed transition active (_isTransitioning), wheel  *)
(* active (_rotationPeriod > 0), cycle active (_colorCycleCount > 0), in   *)
(* every reachable state.                                                  *)
(***************************************************************************)
C1_AtMostOneModeActive ==
  B2N(eng.isTransitioning) + B2N(eng.rotationPeriod > 0)
    + B2N(eng.colorCycleCount > 0) <= 1

\* A cycle was started while the fixed transition begun at this same clock
\* value was still running.
C1_Witness ==
  /\ lastOp = "enableColorCycleMode"
  /\ eng.colorCycleCount > 0
  /\ ~eng.isTransitioning
  /\ eng.fixedEndLCH = RgbToLch(Red)
  /\ eng.transitionStartTime = now
  /\ eng.fixedTransitionDuration > 0

(***************************************************************************)
(* C2.  When setRGB is called while the wheel is active, the new           *)
(* transition starts from the colour the wheel has at the moment of the    *)
(* call (the colour update would emit at that clock value), whenever       *)
(* update last ran.                                                        *)
(***************************************************************************)
C2_SetRGBStartsFromInstantWheelColour ==
  [][(lastOp' = "setRGB" /\ WheelActive(eng))
       => eng'.fixedStartLCH = RgbToLch(Update(eng, now, 0).out[1])]_vars

(***************************************************************************)
(* C3.  With a positive fixed-transition duration, the update whose        *)
(* elapsed time has reached the duration writes exactly the colour given   *)
(* to setRGB, once, and clears the transition; an update of an idle        *)
(* engine writes nothing and changes nothing.                              *)
(***************************************************************************)
C3_CompletionWritesTargetThenIdle ==
  [][/\ (/\ lastOp' = "update"
         /\ eng.isTransitioning
         /\ eng.fixedTransitionDuration > 0
         /\ Elapsed(now, eng.transitionStartTime) >= eng.fixedTransitionDuration)
        => (wrote' = <<target>> /\ ~eng'.isTransitioning)
     /\ (lastOp' = "update" /\ Idle(eng))
        => (wrote' = <<>> /\ eng' = eng)]_vars

(***************************************************************************)
(* C4.  With a zero or negative fixed-transition duration, the next update *)
(* of an active transition completes it: it writes the colour of the       *)
(* transition's end point and clears the transition.                       *)
(***************************************************************************)
C4_NonPositiveDurationCompletesAtOnce ==
  [][(lastOp' = "update" /\ eng.isTransitioning /\ eng.fixedTransitionDuration <= 0)
       => (~eng'.isTransitioning /\ wrote' = <<LchToRgb(eng.fixedEndLCH)>>)]_vars

(***************************************************************************)
(* C5.  In a non-random cycle the update at which a leg's elapsed time     *)
(* reaches the duration writes that leg's target colour exactly and        *)
(* advances the index; with three colours and a 1 s duration the update    *)
(* 1000 ms after the call writes colors[1] and leaves the index at 1.      *)
(***************************************************************************)
C5_LegCompletionWritesTarget ==
  [][/\ (/\ lastOp' = "update"
         /\ CycleActive(eng)
         /\ ~eng.isRandom
         /\ eng.transitionDuration > 0
         /\ Elapsed(now, eng.animationStartTime) >= eng.transitionDuration)
        => /\ wrote' = <<LchToRgb(ListAt(eng, eng.currentColorIndex))>>
           /\ eng'.currentColorIndex
                = (eng.currentColorIndex + 1) % eng.colorCycleCount
     /\ (/\ lastOp' = "update"
         /\ CycleActive(eng)
         /\ ~eng.isRandom
         /\ eng.colorCycleCount = 3
         /\ eng.transitionDuration = 1000
         /\ eng.currentColorIndex = 0
         /\ Elapsed(now, eng.animationStartTime) = 1000)
        => (wrote' = <<LchToRgb(ListAt(eng, 1))>> /\ eng'.currentColorIndex = 1)]_vars

(***************************************************************************)
(* C6.  enableColorCycleMode with a non-empty list resets the index to 0   *)
(* and makes the first leg start from the colour displayed at the moment   *)
(* of the call.                                                            *)
(***************************************************************************)
C6_CycleStartsFromDisplayedColour ==
  [][(lastOp' = "enableColorCycleMode" /\ eng'.colorCycleCount > 0)
       => /\ eng'.currentColorIndex = 0
          /\ eng'.startLCH = RgbToLch(GetCurrentRGB(eng, now))]_vars

(***************************************************************************)
(* C7 as claimed.  For mode-setter calls A then B at one clock value with  *)
(* no update between, every member of the engine after B equals what B     *)
(* alone leaves from the state before A.                                   *)
(***************************************************************************)
C7_SecondCallAloneDecidesState ==
  \A a \in ModeCallIds, b \in ModeCallIds :
    ApplyModeCall(b, ApplyModeCall(a, eng, now).eng, now).eng
      = ApplyModeCall(b, eng, now).eng

(***************************************************************************)
(* C7 as amended.  After A then B, the active mode and the members of it   *)
(* that B assigns from its arguments and the clock (transition target and  *)
(* start time; wheel period, direction and start time; cycle count, list,  *)
(* index, leg start and start time), and the four duration and easing      *)
(* parameters, equal what B alone leaves from the state before A.  Checked  *)
(* from every reachable state in which a call can still be made.           *)
(***************************************************************************)
C7_SecondCallDecidesMode ==
  calls < MaxCalls =>
  \A a \in ModeCallIds, b \in ModeCallIds :
    ModeView(ApplyModeCall(b, ApplyModeCall(a, eng, now).eng, now).eng)
      = ModeView(ApplyModeCall(b, eng, now).eng)

\* A state with a running wheel from which A = enableColorCycleMode and
\* B = setRGB leave a fixed transition whose start colour differs from the
\* one B alone leaves.
C7_Witness ==
  /\ calls < MaxCalls
  /\ WheelActive(eng)
  /\ lastOp = "update"
  /\ ApplyModeCall(1, ApplyModeCall(7, eng, now).eng, now).eng.fixedStartLCH
       # ApplyModeCall(1, eng, now).eng.fixedStartLCH

(***************************************************************************)
(* C8.  At every reachable state and clock value getCurrentRGB returns the *)
(* colour update would write if called at that instant (fixed transition,  *)
(* wheel, cycle), and the last written colour when the engine is idle.     *)
(* Stated for positive durations, the ones the data model allows.          *)
(***************************************************************************)
C8_GetCurrentRGBAgreesWithUpdate ==
  LET u == Update(eng, now, 0)
  IN  (eng.fixedTransitionDuration > 0 /\ eng.transitionDuration > 0)
        => /\ u.out # <<>> => GetCurrentRGB(eng, now) = u.out[1]
           /\ Idle(eng) => GetCurrentRGB(eng, now) = eng.currentRGB

(***************************************************************************)
(* C9.  getCurrentRGB changes no member of the engine and writes nothing   *)
(* to the sink, in every mode.                                             *)
(***************************************************************************)
C9_GetCurrentRGBIsPure ==
  [][lastOp' = "getCurrentRGB" => (eng' = eng /\ wrote' = <<>> /\ now' = now)]_vars

\* getCurrentRGB was called during a cycle leg and returned a blend.
C9_Witness ==
  /\ lastOp = "getCurrentRGB"
  /\ CycleActive(eng)
  /\ now > eng.animationStartTime
  /\ probe # eng.currentRGB

(***************************************************************************)
(* C10.  In wheel mode every update at elapsed time e leaves and emits the *)
(* hue (startHue + 360 e / P) mod 360 (Clockwise) or                       *)
(* (startHue - 360 e / P) mod 360 (CounterClockwise), a number in          *)
(* [0, 360); at e = 1.5 P it is 180 degrees from startHue.                 *)
(***************************************************************************)
C10_WheelHueFormula ==
  (lastOp = "update" /\ WheelActive(eng))
    => LET e == Elapsed(now, eng.animationStartTime)
           d == Rat(360 * e, eng.rotationPeriod)
           expected == IF eng.rotationDirection = "Clockwise"
                       THEN Add(eng.startHue, d) ELSE Sub(eng.startHue, d)
       IN  /\ Le(R(0), eng.currentHue)
           /\ Lt(eng.currentHue, R(360))
           /\ IsFinite(expected)
           /\ eng.currentHue = Mod360(expected)
           /\ wrote = <<HsvToRgb(eng.currentHue, eng.saturation, eng.value)>>
           /\ 2 * e = 3 * eng.rotationPeriod
                => eng.currentHue = Mod360(Add(eng.startHue, R(180)))

(***************************************************************************)
(* C11.  Every colour update emits in wheel mode has the HSV saturation    *)
(* and value of the colour sampled when the wheel was enabled, at the hue  *)
(* the wheel has reached.                                                  *)
(***************************************************************************)
C11_WheelKeepsSampledSaturationAndValue ==
  (lastOp = "update" /\ WheelActive(eng))
    => wrote = <<HsvToRgb(eng.currentHue, RgbToHsv(sampled).s, RgbToHsv(sampled).v)>>

(***************************************************************************)
(* C12.  After enableColorWheelMode with a period <= 0 the wheel is        *)
(* inactive: the call writes nothing and leaves the last written colour,   *)
(* every update until the next mode-setter writes nothing and changes no   *)
(* member (the hue is not recomputed, so nothing is divided by the         *)
(* period), and getCurrentRGB returns the last written colour.             *)
(***************************************************************************)
C12_NonPositivePeriodIsInactive ==
  [][LET parked == /\ ~eng.isTransitioning
                   /\ eng.isAnimating
                   /\ eng.rotationPeriod <= 0
                   /\ eng.colorCycleCount = 0
     IN  /\ (lastOp' = "enableColorWheelMode" /\ eng'.rotationPeriod <= 0)
            => /\ ~WheelActive(eng')
               /\ Idle(eng')
               /\ wrote' = <<>>
               /\ eng'.currentRGB = eng.currentRGB
               /\ GetCurrentRGB(eng', now') = eng'.currentRGB
         /\ (lastOp' = "update" /\ parked) => (wrote' = <<>> /\ eng' = eng)
         /\ parked => GetCurrentRGB(eng, now) = eng.currentRGB]_vars

\* An update ran some time after a wheel was enabled with a negative period
\* over a colour that is not black.
C12_Witness ==
  /\ lastOp = "update"
  /\ eng.isAnimating
  /\ ~eng.isTransitioning
  /\ eng.rotationPeriod < 0
  /\ eng.colorCycleCount = 0
  /\ now > eng.animationStartTime
  /\ eng.currentRGB # Black

(***************************************************************************)
(* C13.  enableColorCycleMode with count = 0 starts no animation: it       *)
(* writes nothing, leaves the last written colour, leaves the engine Idle  *)
(* and not animating, and an update after it, at that clock value or any   *)
(* later one, writes nothing and changes nothing.                          *)
(***************************************************************************)
C13_EmptyCycleIsNoOp ==
  [][(lastOp' = "enableColorCycleMode" /\ eng'.colorCycleCount = 0)
       => /\ Idle(eng')
          /\ ~eng'.isAnimating
          /\ wrote' = <<>>
          /\ eng'.currentRGB = eng.currentRGB
          /\ \A d \in {0} \cup TickDeltas :
               Update(eng', now' + d, 0) = [eng |-> eng', out |-> <<>>]]_vars

\* An empty cycle was enabled over a running three-colour cycle, and an
\* update followed.
C13_Witness ==
  /\ lastOp = "update"
  /\ wrote = <<>>
  /\ Idle(eng)
  /\ eng.colorCycleCount = 0
  /\ Len(eng.colorCycleList) = 3
  /\ eng.animationStartTime < now
  /\ calls = 2

(***************************************************************************)
(* C14.  An update call passes at most one colour to writeLeds, on every   *)
(* branch.                                                                 *)
(***************************************************************************)
C14_UpdateWritesAtMostOnce ==
  [][lastOp' = "update" => Len(wrote') <= 1]_vars

\* The update that completed a fixed transition: it wrote the end colour
\* and cleared the transition.
C14_Witness ==
  /\ lastOp = "update"
  /\ Len(wrote) = 1
  /\ wrote[1] = LchToRgb(eng.fixedEndLCH)
  /\ ~eng.isTransitioning
  /\ ~eng.isAnimating
  /\ eng.transitionStartTime < now
  /\ eng.fixedEndLCH # ZeroLCH

\* The Kelvin colour with each channel scaled by a finite brightness >= 0
\* and cut to its integer part.
KelvinScaled(kelvin, brightness) ==
  LET k == KelvinToRgb(kelvin)
  IN  RGB((k.r * brightness[1]) \div brightness[2],
          (k.g * brightness[1]) \div brightness[2],
          (k.b * brightness[1]) \div brightness[2])

\* The brightness clamped to [0, 1].
ClampedBrightness(brightness) ==
  IF Lt(brightness, R(0)) THEN R(0)
  ELSE IF Lt(R(1), brightness) THEN R(1)
  ELSE brightness

(***************************************************************************)
(* C15.  setColorTemperature passes exactly one colour to writeLeds, the   *)
(* Kelvin colour scaled by the brightness (a brightness in [0, 1]); it     *)
(* cancels whatever mode was active and leaves the engine Idle, so that    *)
(* an update after it, at that clock value or later, writes nothing.       *)
(***************************************************************************)
C15_SetColorTemperatureWritesOnceThenIdle ==
  [][lastOp' = "setColorTemperature"
       => /\ Len(wrote') = 1
          /\ eng'.currentRGB = wrote'[1]
          /\ (Le(R(0), kelvinCall'[2]) /\ Le(kelvinCall'[2], R(1)))
               => wrote'[1] = KelvinScaled(kelvinCall'[1], kelvinCall'[2])
          /\ Idle(eng')
          /\ ~eng'.isAnimating
          /\ \A d \in {0} \cup TickDeltas :
               Update(eng', now' + d, 0) = [eng |-> eng', out |-> <<>>]]_vars

\* setColorTemperature(1500 K, 0.5) was called while a fixed transition was
\* running, and an update followed later.
C15_Witness ==
  /\ lastOp = "update"
  /\ wrote = <<>>
  /\ kelvinCall = <<1500, Rat(1, 2)>>
  /\ eng.currentRGB = RGB(127, 54, 0)
  /\ eng.fixedEndLCH # ZeroLCH
  /\ Idle(eng)
  /\ now > eng.transitionStartTime
  /\ calls = 2

(***************************************************************************)
(* C16.  setColorTemperature clamps the brightness to [0, 1]: each channel *)
(* it writes is the Kelvin channel scaled by the clamped brightness, hence *)
(* between 0 and the unscaled channel.                                     *)
(***************************************************************************)
C16_BrightnessIsClamped ==
  [][lastOp' = "setColorTemperature"
       => LET k == KelvinToRgb(kelvinCall'[1])
              c == wrote'[1]
          IN  /\ c = KelvinScaled(kelvinCall'[1], ClampedBrightness(kelvinCall'[2]))
              /\ c.r <= k.r /\ c.g <= k.g /\ c.b <= k.b]_vars

(***************************************************************************)
(* C17.  After enableColorCycleMode(colors, count, false) the stored count *)
(* is min(count, MAX_COLORS) and entry i of the list is rgbToLch(colors[i])*)
(* for every i below the stored count, whatever list was stored before;    *)
(* the stored count never exceeds MAX_COLORS.                              *)
(***************************************************************************)
C17_ListIsReplacedAndTruncated ==
  [][/\ eng.colorCycleCount <= MAX_COLORS
     /\ eng'.colorCycleCount <= MAX_COLORS
     /\ (lastOp' = "enableColorCycleMode" /\ ~eng'.isRandom)
          => \E colors \in CycleInputs :
               LET n == IF Len(colors) < MAX_COLORS THEN Len(colors) ELSE MAX_COLORS
               IN  /\ eng'.colorCycleCount = n
                   /\ \A i \in 0..(n - 1) : ListAt(eng', i) = RgbToLch(colors[i + 1])]_vars

\* The list of MAX_COLORS + 1 colours was passed while the three-colour
\* list was cycling: the stored list is its first MAX_COLORS entries.
C17_Witness ==
  /\ lastOp = "enableColorCycleMode"
  /\ calls = 2
  /\ eng.colorCycleCount = MAX_COLORS
  /\ Len(eng.colorCycleList) = MAX_COLORS
  /\ ListAt(eng, 0) = RgbToLch(Blue)
  /\ ListAt(eng, MAX_COLORS - 1) = RgbToLch(LongColors[MAX_COLORS])
  /\ eng.startLCH = RgbToLch(Blue)
  /\ now > 0

(***************************************************************************)
(* C18.  From construction until the first call of the API the engine is   *)
(* Idle and its current colour is black, and a first setRGB starts its     *)
(* transition from black.                                                  *)
(***************************************************************************)
C18_ConstructedIdleAndBlack ==
  [][calls = 0
       => /\ Idle(eng)
          /\ ~eng.isAnimating
          /\ eng.currentRGB = Black
          /\ GetCurrentRGB(eng, now) = Black
          /\ lastOp' = "setRGB"
               => (eng'.isTransitioning /\ eng'.fixedStartLCH = RgbToLch(Black))]_vars

\* The first call after construction was setRGB(255, 0, 0), some time after
\* the start.
C18_Witness ==
  /\ lastOp = "setRGB"
  /\ calls = 1
  /\ now > 0
  /\ eng.isTransitioning
  /\ eng.fixedStartLCH = RgbToLch(Black)
  /\ eng.fixedEndLCH = RgbToLch(Red)

\* 0 <= t <= 1 for every entry t of a sequence of progress values.
AllInUnitInterval(ts) ==
  \A i \in 1..Len(ts) : Le(R(0), ts[i]) /\ Le(ts[i], R(1))

(***************************************************************************)
(* C19.  Every progress value that update, or getCurrentRGB (called        *)
(* directly or by setRGB), passes to getEasedValue lies in [0, 1].         *)
(***************************************************************************)
C19_ProgressWithinUnitInterval ==
  [][/\ lastOp' = "update" => AllInUnitInterval(UpdateEasingArgs(eng, now))
     /\ lastOp' \in {"getCurrentRGB", "setRGB"}
          => AllInUnitInterval(GetCurrentRGBEasingArgs(eng, now))]_vars

(***************************************************************************)
(* C20.  For each of the ten curves getEasedValue(curve, 0) = 0 and        *)
(* getEasedValue(curve, 1) = 1.                                            *)
(***************************************************************************)
C20_EasingBoundaries ==
  /\ \A func \in EasingCurves :
       GetEasedValue(func, R(0)) = R(0) /\ GetEasedValue(func, R(1)) = R(1)
  /\ easingCall # <<>>
       => /\ easingCall[2] = R(0) => easingCall[3] = R(0)
          /\ easingCall[2] = R(1) => easingCall[3] = R(1)

\* getEasedValue(ElasticInOut, 1) was called and returned 1.
C20_Witness == easingCall = <<"ElasticInOut", R(1), R(1)>>

(***************************************************************************)
(* C21.  For a curve identifier that is not one of the ten curves,         *)
(* getEasedValue(curve, t) returns t, the Linear result, for every t.      *)
(***************************************************************************)
C21_UnknownCurveIsLinear ==
  /\ \A func \in UnknownCurves :
       \A t \in EasingInputs(func) :
         GetEasedValue(func, t) = t /\ GetEasedValue(func, t) = GetEasedValue("Linear", t)
  /\ (easingCall # <<>> /\ easingCall[1] \notin EasingCurves)
       => easingCall[3] = easingCall[2]

\* getEasedValue was called with an identifier past the last enumerator and
\* a progress value at which no other curve returns its argument.
C21_Witness == easingCall = <<"Unknown10", Rat(1, 4), Rat(1, 4)>>

\* Each channel of a is within one unit of the same channel of b.
WithinOneUnit(a, b) ==
  /\ Abs(a.r - b.r) <= 1
  /\ Abs(a.g - b.g) <= 1
  /\ Abs(a.b - b.b) <= 1

(***************************************************************************)
(* C22.  lchToRgb(rgbToLch(c)) is within one unit of c on each channel,    *)
(* for the sampled colours: the primaries, white, black, grays and the     *)
(* colours between them.                                                   *)
(***************************************************************************)
C22_LchRoundTrip ==
  roundTrip # <<>> => WithinOneUnit(roundTrip[2], roundTrip[1])

(***************************************************************************)
(* C23.  In cycle mode with a zero or negative cycle duration every update *)
(* completes the current leg at once: the leg's target becomes the start   *)
(* of the next leg and is written to the sink, the index advances, the     *)
(* timing anchor is reset, and no progress value is computed from the      *)
(* duration.                                                               *)
(***************************************************************************)
C23_NonPositiveCycleDurationCompletesLeg ==
  [][(lastOp' = "update" /\ CycleActive(eng) /\ eng.transitionDuration <= 0)
       => /\ eng'.startLCH = ListAt(eng, eng.currentColorIndex)
          /\ wrote' = <<LchToRgb(ListAt(eng, eng.currentColorIndex))>>
          /\ eng'.currentRGB = LchToRgb(ListAt(eng, eng.currentColorIndex))
          /\ IF eng.colorCycleCount > 1 /\ eng.isRandom
             THEN /\ eng'.currentColorIndex # eng.currentColorIndex
                  /\ eng'.currentColorIndex < eng.colorCycleCount
             ELSE eng'.currentColorIndex
                    = (eng.currentColorIndex + 1) % eng.colorCycleCount
          /\ eng'.animationStartTime = now
          /\ UpdateEasingArgs(eng, now) = <<>>]_vars

(***************************************************************************)
(* C24.  In a non-random cycle the update at which the elapsed time has    *)
(* reached the cycle duration makes the finished leg's target list[index]  *)
(* the start of the next leg, replaces index by (index + 1) mod count and  *)
(* sets the timing anchor to the clock value of that update.  The index    *)
(* is 0 when the cycle is enabled and changes at no other step, so the     *)
(* targets are the entries 0, 1, ..., count - 1, 0, ... in that order.     *)
(***************************************************************************)
C24_SequentialLegsVisitListInOrder ==
  [][/\ (/\ lastOp' = "update"
         /\ CycleActive(eng)
         /\ ~eng.isRandom
         /\ Elapsed(now, eng.animationStartTime) >= eng.transitionDuration)
        => /\ eng'.startLCH = ListAt(eng, eng.currentColorIndex)
           /\ eng'.currentColorIndex = (eng.currentColorIndex + 1) % eng.colorCycleCount
           /\ eng'.animationStartTime = now
           /\ eng'.colorCycleList = eng.colorCycleList
           /\ eng'.colorCycleCount = eng.colorCycleCount
           /\ CycleActive(eng')
     /\ (lastOp' = "enableColorCycleMode" /\ eng'.colorCycleCount > 0)
        => eng'.currentColorIndex = 0
     /\ (/\ CycleActive(eng)
         /\ ~eng.isRandom
         /\ lastOp' \notin {"setRGB", "setColorTemperature", "enableColorWheelMode",
                            "enableColorCycleMode"}
         /\ ~(/\ lastOp' = "update"
              /\ Elapsed(now, eng.animationStartTime) >= eng.transitionDuration))
        => /\ eng'.currentColorIndex = eng.currentColorIndex
           /\ eng'.startLCH = eng.startLCH
           /\ eng'.animationStartTime = eng.animationStartTime]_vars

\* The third leg of a three-colour cycle with a positive duration was
\* completed: the index is back at 0 and the next leg starts from entry 2.
C24_Witness ==
  /\ lastOp = "update"
  /\ CycleActive(eng)
  /\ ~eng.isRandom
  /\ eng.colorCycleCount = 3
  /\ eng.transitionDuration > 0
  /\ eng.currentColorIndex = 0
  /\ eng.startLCH = RgbToLch(Blue)
  /\ eng.animationStartTime = now
  /\ ticks = 3

(***************************************************************************)
(* C25.  In a random cycle with more than one entry every leg completion   *)
(* leaves an index that is below the count and differs from the index of   *)
(* the leg just finished, so that two consecutive legs never have the same *)
(* target; with one entry the index stays 0.                               *)
(***************************************************************************)
C25_RandomLegsNeverRepeat ==
  [][(/\ lastOp' = "update"
      /\ CycleActive(eng)
      /\ eng.isRandom
      /\ Elapsed(now, eng.animationStartTime) >= eng.transitionDuration)
       => IF eng.colorCycleCount > 1
          THEN /\ eng'.currentColorIndex \in 0..(eng.colorCycleCount - 1)
               /\ eng'.currentColorIndex # eng.currentColorIndex
               /\ (\A i, j \in 0..(eng.colorCycleCount - 1) :
                     i # j => ListAt(eng, i) # ListAt(eng, j))
                    => ListAt(eng', eng'.currentColorIndex) # eng'.startLCH
          ELSE eng.currentColorIndex = 0 /\ eng'.currentColorIndex = 0]_vars

\* Two legs of a random three-colour cycle were completed: the first
\* redraw left index 1 and the second returned to index 0.
C25_Witness ==
  /\ lastOp = "update"
  /\ CycleActive(eng)
  /\ eng.isRandom
  /\ eng.colorCycleCount = 3
  /\ eng.currentColorIndex = 0
  /\ eng.startLCH = ListAt(eng, 1)
  /\ eng.animationStartTime = now
  /\ eng.transitionDuration > 0
  /\ ticks >= 2

\* a holds the entries of b, each as often as b does.
IsPermutationOf(a, b) ==
  /\ Len(a) = Len(b)
  /\ \E p \in [1..Len(a) -> 1..Len(a)] :
       /\ \A i, j \in 1..Len(a) : i # j => p[i] # p[j]
       /\ \A k \in 1..Len(a) : a[k] = b[p[k]]

(***************************************************************************)
(* C26.  After enableColorCycleMode(colors, count, true), whatever the     *)
(* random draws were, the stored count is min(count, MAX_COLORS) and the   *)
(* first count entries of the list are a permutation of the converted      *)
(* input; every draw j at position i has i <= j < count, and the entries   *)
(* of the list from count on are the ones it held before.                  *)
(***************************************************************************)
C26_ShuffleIsPermutation ==
  [][(lastOp' = "enableColorCycleMode" /\ eng'.isRandom /\ eng'.colorCycleCount > 0)
       => /\ \E colors \in CycleInputs :
               LET n == IF Len(colors) < MAX_COLORS THEN Len(colors) ELSE MAX_COLORS
               IN  /\ eng'.colorCycleCount = n
                   /\ IsPermutationOf(SubSeq(eng'.colorCycleList, 1, n),
                                      [k \in 1..n |-> RgbToLch(colors[k])])
          /\ \A js \in ShuffleDraws(eng'.colorCycleCount) :
               \A i \in 0..(eng'.colorCycleCount - 2) :
                 i <= js[i + 1] /\ js[i + 1] < eng'.colorCycleCount
          /\ Len(eng'.colorCycleList) >= Len(eng.colorCycleList)
          /\ \A k \in (eng'.colorCycleCount + 1)..Len(eng'.colorCycleList) :
               eng'.colorCycleList[k] = eng.colorCycleList[k]]_vars

\* A random three-colour cycle was enabled over the list of MAX_COLORS
\* entries, and the shuffle moved the third colour to the front.
C26_Witness ==
  /\ lastOp = "enableColorCycleMode"
  /\ eng.isRandom
  /\ eng.colorCycleCount = 3
  /\ Len(eng.colorCycleList) = MAX_COLORS
  /\ ListAt(eng, 0) = RgbToLch(Blue)
  /\ ListAt(eng, 1) = RgbToLch(Red)
  /\ ListAt(eng, 2) = RgbToLch(Green)

(***************************************************************************)
(* C27.  setCycleDuration, setCycleEasing, setTransitionDuration and       *)
(* setTransitionEasing each change their own parameter and no other member *)
(* of the engine, and write nothing to the sink; the next update of the    *)
(* mode concerned computes with the value set: a cycle leg is completed    *)
(* exactly when the elapsed time has reached the cycle duration in force,  *)
(* and a blend is eased by the curve in force.                             *)
(***************************************************************************)
C27_SettersChangeOnlyTheirParameter ==
  [][/\ lastOp' = "setCycleDuration"
          => /\ [eng' EXCEPT !.transitionDuration = eng.transitionDuration] = eng
             /\ wrote' = <<>>
     /\ lastOp' = "setCycleEasing"
          => /\ [eng' EXCEPT !.currentEasing = eng.currentEasing] = eng
             /\ wrote' = <<>>
     /\ lastOp' = "setTransitionDuration"
          => /\ [eng' EXCEPT !.fixedTransitionDuration = eng.fixedTransitionDuration] = eng
             /\ wrote' = <<>>
     /\ lastOp' = "setTransitionEasing"
          => /\ [eng' EXCEPT !.fixedTransitionEasing = eng.fixedTransitionEasing] = eng
             /\ wrote' = <<>>
     /\ (lastOp' = "update" /\ CycleActive(eng))
          => LET elapsed == Elapsed(now, eng.animationStartTime)
             IN  IF elapsed >= eng.transitionDuration
                 THEN eng'.animationStartTime = now
                 ELSE wrote' = <<LchToRgb(Interpolate(eng.startLCH,
                                   ListAt(eng, eng.currentColorIndex),
                                   GetEasedValue(eng.currentEasing,
                                                 Progress(elapsed, eng.transitionDuration))))>>
     /\ (lastOp' = "update" /\ TransitionActive(eng))
          => LET p == Progress(Elapsed(now, eng.transitionStartTime),
                               eng.fixedTransitionDuration)
             IN  IF Le(R(1), p) THEN ~eng'.isTransitioning
                 ELSE wrote' = <<LchToRgb(Interpolate(eng.fixedStartLCH, eng.fixedEndLCH,
                                   GetEasedValue(eng.fixedTransitionEasing, p)))>>]_vars

\* setCycleDuration(1 s) was called for a running three-colour cycle and
\* the update 1000 ms after the start completed the first leg, which the
\* default duration of 2 s would not have done.
C27_Witness ==
  /\ lastOp = "update"
  /\ CycleActive(eng)
  /\ ~eng.isRandom
  /\ eng.colorCycleCount = 3
  /\ eng.transitionDuration = 1000
  /\ eng.currentColorIndex = 1
  /\ eng.animationStartTime = now
  /\ now = 1000
  /\ calls = 2

(***************************************************************************)
(* C28.  An active wheel (period > 0) or cycle (count > 0) stays the       *)
(* active mode over every update, every parameter setter, every            *)
(* getCurrentRGB and every advance of the clock: only setRGB,              *)
(* setColorTemperature, enableColorWheelMode and enableColorCycleMode end  *)
(* it.                                                                     *)
(***************************************************************************)
C28_WheelAndCycleDoNotTerminate ==
  [][lastOp' \notin {"setRGB", "setColorTemperature", "enableColorWheelMode",
                     "enableColorCycleMode"}
       => /\ WheelActive(eng)
               => /\ WheelActive(eng')
                  /\ eng'.rotationPeriod = eng.rotationPeriod
                  /\ eng'.colorCycleCount = 0
          /\ CycleActive(eng)
               => /\ CycleActive(eng')
                  /\ eng'.colorCycleCount = eng.colorCycleCount]_vars

\* A wheel that has turned for more than one period, through updates and a
\* parameter setter, is still the active mode.
C28_Witness ==
  /\ lastOp = "update"
  /\ WheelActive(eng)
  /\ Elapsed(now, eng.animationStartTime) > eng.rotationPeriod
  /\ Len(wrote) = 1
  /\ eng.transitionDuration # DefaultTransitionDurationMs
  /\ calls = 2

(***************************************************************************)
(* C29.  Every update call returns.  The branches without a loop are one   *)
(* step; the redraw loop of a completed leg of a random cycle with more    *)
(* than one entry ends, given that random does not return the current      *)
(* index for ever, because another index exists.                           *)
(***************************************************************************)
C29_UpdateReturns == (~Returned) ~> Returned

\* The redraw loop drew the current index of a three-colour cycle and has
\* to draw again.
C29_Witness ==
  /\ redraw.pc = "test"
  /\ redraw.newIndex = eng.currentColorIndex
  /\ eng.colorCycleCount = 3
  /\ eng.currentColorIndex > 0

(***************************************************************************)
(* C30.  In every reachable state in which a cycle is stored               *)
(* (_colorCycleCount > 0), 0 <= _currentColorIndex < _colorCycleCount      *)
(* <= MAX_COLORS and the list holds at least _colorCycleCount entries      *)
(* written by enableColorCycleMode, so that update and getCurrentRGB read  *)
(* _colorCycleList[_currentColorIndex] within the populated part.          *)
(***************************************************************************)
C30_IndexWithinPopulatedList ==
  eng.colorCycleCount > 0
    => /\ eng.currentColorIndex >= 0
       /\ eng.currentColorIndex < eng.colorCycleCount
       /\ eng.colorCycleCount <= MAX_COLORS
       /\ eng.colorCycleCount <= Len(eng.colorCycleList)
       /\ ListAt(eng, eng.currentColorIndex) = eng.colorCycleList[eng.currentColorIndex + 1]

\* A cycle over MAX_COLORS entries has reached its last entry.
C30_Witness ==
  /\ lastOp = "update"
  /\ CycleActive(eng)
  /\ eng.colorCycleCount = MAX_COLORS
  /\ eng.currentColorIndex = MAX_COLORS - 1

(***************************************************************************)
(* C31.  The elapsed time update computes is the unsigned 32-bit           *)
(* difference of the counter and the anchor, which is the number of        *)
(* milliseconds that have passed since the anchor was taken, also when the *)
(* counter has wrapped in between.  A fixed transition of positive         *)
(* duration is completed by an update exactly when that many milliseconds  *)
(* have passed, and so is a cycle leg: never earlier, and not later than   *)
(* the first update after.                                                 *)
(***************************************************************************)
C31_ElapsedSurvivesCounterWrap ==
  [][/\ (lastOp' = "update" /\ eng.isTransitioning /\ eng.fixedTransitionDuration > 0)
          => /\ Elapsed(now, eng.transitionStartTime) = now - eng.transitionStartTime
             /\ ~eng'.isTransitioning
                  <=> now - eng.transitionStartTime >= eng.fixedTransitionDuration
     /\ (lastOp' = "update" /\ CycleActive(eng) /\ eng.transitionDuration > 0)
          => /\ Elapsed(now, eng.animationStartTime) = now - eng.animationStartTime
             /\ (/\ eng'.animationStartTime = now
                 /\ eng'.startLCH = ListAt(eng, eng.currentColorIndex)
                 /\ wrote' = <<>>)
                  <=> now - eng.animationStartTime >= eng.transitionDuration]_vars

\* A fixed transition of 1 s that was started 200 ms before the counter
\* wrapped was completed by the update 800 ms after the wrap.
C31_Witness ==
  /\ lastOp = "update"
  /\ ~eng.isTransitioning
  /\ eng.transitionStartTime = -200
  /\ eng.fixedTransitionDuration = 1000
  /\ now = 800
  /\ wrote = <<LchToRgb(eng.fixedEndLCH)>>
  /\ eng.fixedEndLCH # ZeroLCH

(***************************************************************************)
(* C32.  _currentRGB is the colour most recently written to the sink: an   *)
(* operation that writes leaves in it the last colour it wrote, and an     *)
(* operation that writes nothing leaves it as it was; in an idle engine    *)
(* getCurrentRGB returns it.                                               *)
(***************************************************************************)
C32_CurrentRGBIsLastWritten ==
  [][/\ IF wrote' # <<>> THEN eng'.currentRGB = wrote'[Len(wrote')]
        ELSE eng'.currentRGB = eng.currentRGB
     /\ Idle(eng') => GetCurrentRGB(eng', now') = eng'.currentRGB]_vars

\* An update of a three-colour cycle wrote the colour of the first leg, and
\* setRGB, which writes nothing, was called afterwards.
C32_Witness ==
  /\ lastOp = "setRGB"
  /\ wrote = <<>>
  /\ calls = 2
  /\ Len(eng.colorCycleList) = 3
  /\ ~eng.isRandom
  /\ eng.currentRGB = Red
  /\ eng.fixedStartLCH = RgbToLch(Red)
  /\ eng.isTransitioning

(***************************************************************************)
(* SpotlightServer::handleSetCycleMode.  The "colors" parameter is a       *)
(* String, modelled as the sequence of its characters; indices are the     *)
(* code's, counted from 0.                                                 *)
(***************************************************************************)

\* String::indexOf(',', from): the first comma at or after from, or -1.
IndexOfComma(str, from) ==
  LET hits == {i \in from..(Len(str) - 1) : str[i + 1] = ","}
  IN  IF hits = {} THEN -1 ELSE CHOOSE i \in hits : \A j \in hits : i <= j

\* String::substring(from, to): the characters at from .. to - 1.
Substring(str, from, to) == SubSeq(str, from + 1, to)

\* ColorSpace::hexToRgb as the handler calls it.  Its definition is not among
\* the sources; the model's strings spell a colour with one letter, and any
\* other token reads as black.  The handler does not look at the result.
HexToRgb(hex) ==
  IF hex = <<"R">> THEN Red
  ELSE IF hex = <<"G">> THEN Green
  ELSE IF hex = <<"B">> THEN Blue
  ELSE Black

\* colors[count++] = c.  The local array holds MAX_COLORS entries, so a write
\* at an index of MAX_COLORS or more is past its end.
StoreColor(st, c) ==
  [st EXCEPT !.colors = Append(@, c),
             !.count = @ + 1,
             !.overrun = @ \/ st.count >= MAX_COLORS]

\* The while loop that tests only for a comma.
RECURSIVE ParseCommasUnbounded(_, _)
ParseCommasUnbounded(str, st) ==
  LET commaIndex == IndexOfComma(str, st.lastIndex)
  IN  IF commaIndex >= 0
      THEN ParseCommasUnbounded(str,
             [StoreColor(st, HexToRgb(Substring(str, st.lastIndex, commaIndex)))
                EXCEPT !.lastIndex = commaIndex + 1])
      ELSE st

\* The while loop: one colour for each comma, while the array has room.
RECURSIVE ParseCommas(_, _)
ParseCommas(str, st) ==
  LET commaIndex == IndexOfComma(str, st.lastIndex)
  IN  IF commaIndex >= 0 /\ st.count < MAX_COLORS
      THEN ParseCommas(str,
             [StoreColor(st, HexToRgb(Substring(str, st.lastIndex, commaIndex)))
                EXCEPT !.lastIndex = commaIndex + 1])
      ELSE st

\* The parsing of colorsStr: the loop, then the text after the last comma.
ParseColors(str) ==
  LET st == ParseCommas(str, [colors |-> <<>>, count |-> 0, lastIndex |-> 0,
                              overrun |-> FALSE])
  IN  IF st.lastIndex < Len(str) /\ st.count < MAX_COLORS
      THEN StoreColor(st, HexToRgb(Substring(str, st.lastIndex, Len(str))))
      ELSE st

\* n colour letters separated by commas, with a trailing comma when asked.
ColorString(n, trailing) ==
  [k \in 1..(2 * n - 1 + trailing) |->
     IF k % 2 = 0 THEN ","
     ELSE IF k % 3 = 1 THEN "R" ELSE IF k % 3 = 2 THEN "B" ELSE "G"]

\* The values of the colors parameter the model sends: the empty string, a
\* lone comma, empty tokens, short lists, and lists around and beyond
\* MAX_COLORS entries.
ColorStrings ==
  {<<>>, <<",">>, <<",", "R">>, <<"R", ",", ",", "G">>}
    \cup {ColorString(n, trailing) : n \in {1, 3}, trailing \in {0, 1}}
    \cup {ColorString(MAX_COLORS - 1, 0), ColorString(MAX_COLORS, 1),
          ColorString(MAX_COLORS + 1, 0), ColorString(MAX_COLORS + 8, 1)}

\* handleSetCycleMode: without a colors parameter the reply is 400 and the
\* engine is not called; otherwise the parsed colours go to
\* enableColorCycleMode and the reply is 200.
HandleSetCycleMode ==
  /\ calls < MaxCalls
  /\ calls' = calls + 1
  /\ \E hasColors \in BOOLEAN :
       IF ~hasColors
       THEN /\ reply' = [NoReply EXCEPT !.status = 400]
            /\ eng' = eng
            /\ wrote' = <<>>
            /\ lastOp' = "handleSetCycleMode"
       ELSE \E colorsStr \in ColorStrings :
              LET st == ParseColors(colorsStr)
              IN  \E isRandom \in (IF st.count > 3 THEN {FALSE} ELSE BOOLEAN) :
                  \E js \in (IF isRandom THEN ShuffleDraws(st.count) ELSE {<<>>}) :
                    /\ Effect(EnableColorCycleMode(eng, now, st.colors, st.count,
                                                   isRandom, js),
                              "handleSetCycleMode")
                    /\ reply' = [status |-> 200, hasColors |-> TRUE,
                                 given |-> colorsStr, colors |-> st.colors,
                                 count |-> st.count, overrun |-> st.overrun]
  /\ UNCHANGED <<redraw, roundTrip, easingCall, kelvinCall, sampled, now, castUB, target, probe, ticks>>

\* Requests arriving at any time, one after another.
ServerNext ==
  \/ Tick
  \/ HandleSetCycleMode

ServerSpec == Init /\ [][ServerNext]_vars

\* C33: handleSetCycleMode, for every value of the colors parameter, parses
\* at most MAX_COLORS colours, writes none of them past the end of its local
\* array and hands enableColorCycleMode a count of at most MAX_COLORS, which
\* the engine stores as it is; a request without the parameter is answered
\* with 400 and leaves the engine as it was.
C33_HandlerStaysWithinMaxColors ==
  [][lastOp' = "handleSetCycleMode" /\ calls' = calls + 1
       => IF reply'.hasColors
          THEN /\ reply'.status = 200
               /\ reply'.count <= MAX_COLORS
               /\ Len(reply'.colors) = reply'.count
               /\ ~reply'.overrun
               /\ eng'.colorCycleCount = reply'.count
          ELSE /\ reply'.status = 400
               /\ eng' = eng
               /\ wrote' = <<>>]_vars

\* A list of MAX_COLORS + 8 colours was sent and MAX_COLORS of them stored.
C33_Witness ==
  /\ lastOp = "handleSetCycleMode"
  /\ reply.status = 200
  /\ reply.given = ColorString(MAX_COLORS + 8, 1)
  /\ reply.count = MAX_COLORS
  /\ eng.colorCycleCount = MAX_COLORS
  /\ Len(eng.colorCycleList) = MAX_COLORS

====
